---- MODULE Spec2Model ----
(***************************************************************************)
(* at::detail::empty_cpu / empty_generic (aten/src/ATen/EmptyTensor.cpp):  *)
(* one allocation call, step by step, followed by the life of the Storage  *)
(* it built while threads share and drop references to it.                 *)
(*                                                                         *)
(* int64_t is scaled down to IntBits-bit two's complement.  Code that      *)
(* EmptyTensor.cpp calls but does not contain (c10::multiply_integers,     *)
(* the CUDA hooks, TensorImpl's stride routines, intrusive_ptr, the        *)
(* element width table) is modelled from the specification's text.         *)
(***************************************************************************)
EXTENDS Integers, Sequences, FiniteSets, TLC

\* ---------------------------------------------------------------- bounds
IntBits == 6
MaxRank == 3
MaxDim == 4
MaxThreads == 2

MaxInt == 2^(IntBits - 1) - 1
Wrap(x) == ((x + 2^(IntBits - 1)) % 2^IntBits) - 2^(IntBits - 1)
Max(a, b) == IF a >= b THEN a ELSE b

Dims == (-2)..MaxDim
Shapes == UNION {[1..n -> Dims] : n \in 0..MaxRank}
SharedShapes == {<<>>, <<0>>, <<2>>}
ScalarTypes == {"Byte", "Float", "Double"}
MemoryFormats == {"None", "Contiguous", "ChannelsLast"}
Threads == 1..MaxThreads

VARIABLES
    size, scalar_type, pin_memory, memory_format_opt,   \* the call's inputs
    hasPinnedAllocator,   \* whether the hooks have a pinned allocator
    pc,                   \* position of the call
    allocator,            \* empty_cpu's local: "none", "cpu" or "pinned"
    nelements, size_bytes,
    error,                \* the exception that left the call, if any
    allocCalls, requested,   \* allocator->allocate: calls, last byte count
    storage,              \* the StorageImpl
    tensor,               \* the TensorImpl
    setSizesCalls, restrideCalls,
    steps,                \* the stages that have succeeded, in order
    holds,                \* per thread: "none", "held", "freeing"
    freed                 \* times the buffer went back to the allocator

vars == <<size, scalar_type, pin_memory, memory_format_opt, hasPinnedAllocator,
          pc, allocator, nelements, size_bytes, error, allocCalls, requested,
          storage, tensor, setSizesCalls, restrideCalls, steps, holds, freed>>

inputs == <<size, scalar_type, pin_memory, memory_format_opt, hasPinnedAllocator>>

NoError == [kind |-> "none", dim |-> 0, shape |-> <<>>]
Error(k) == [kind |-> k, dim |-> 0, shape |-> <<>>]
NoStorage == [exists |-> FALSE, nbytes |-> 0, allocator |-> "none",
              resizable |-> FALSE, refcount |-> 0]
NoTensor == [exists |-> FALSE, sizes |-> <<>>, strides |-> <<>>,
             dtype |-> "none", ownsStorage |-> FALSE]

\* ------------------------------------------------------- pure functions

\* The element width table (caffe2::TypeMeta::itemsize).
itemsize(t) == CASE t = "Byte" -> 1 [] t = "Float" -> 4 [] t = "Double" -> 8

\* CUDAHooksInterface::getPinnedMemoryAllocator: the pinned allocator, or a
\* throw when none is registered.
getPinnedMemoryAllocator(has) == IF has THEN "pinned" ELSE "throw"

\* Variant: downgrades to the default allocator when no pinned one exists.
GetCPUAllocatorFallback(pin, has) ==
    IF pin /\ has THEN "pinned" ELSE "cpu"

\* GetCPUAllocatorMaybePinned: the hooks' pinned allocator (or their throw)
\* when pin_memory, c10::GetCPUAllocator() otherwise.
GetCPUAllocatorMaybePinned(pin, has) ==
    IF pin THEN getPinnedMemoryAllocator(has) ELSE "cpu"

\* check_size_nonnegative: the index of the dimension the TORCH_CHECK of the
\* loop fails on, 0 when the loop completes.
NegativeIndices(s) == {i \in 1..Len(s) : ~(s[i] >= 0)}
\* Variant: reports the last negative dimension instead of the first.
LastNegative(s) ==
    IF NegativeIndices(s) = {} THEN 0
    ELSE CHOOSE i \in NegativeIndices(s) : \A j \in NegativeIndices(s) : j <= i

check_size_nonnegative(s) ==
    IF NegativeIndices(s) = {} THEN 0
    ELSE CHOOSE i \in NegativeIndices(s) : \A j \in NegativeIndices(s) : i <= j

\* c10::multiply_integers, overflow-checked: the running product left to
\* right from 1, or -1 once a partial product leaves the integer range.
RECURSIVE multiply_integers_from(_, _, _)
multiply_integers_from(s, i, acc) ==
    IF i > Len(s) THEN acc
    ELSE IF acc * s[i] > MaxInt THEN -1
    ELSE multiply_integers_from(s, i + 1, acc * s[i])
multiply_integers(s) == multiply_integers_from(s, 1, 1)

\* int64_t size_bytes = nelements * dtype.itemsize(): a size_t product
\* converted back to int64_t.
ByteSize(n, t) == Wrap(n * itemsize(t))

\* make_intrusive<StorageImpl>(use_byte_size_t(), size_bytes, data, allocator,
\* /*resizeable=*/true): one owner, the intrusive_ptr returned.
\* Variant: the reference is copied, not moved, and the copy is never dropped.
StorageImplTwoOwners(nbytes, alloc) ==
    [exists |-> TRUE, nbytes |-> nbytes, allocator |-> alloc,
     resizable |-> TRUE, refcount |-> 2]

StorageImpl(nbytes, alloc) ==
    [exists |-> TRUE, nbytes |-> nbytes, allocator |-> alloc,
     resizable |-> TRUE, refcount |-> 1]

\* A default TensorImpl: size [0], stride [1].
DefaultSizes == <<0>>
DefaultStrides == <<1>>

\* size.size() != 1 || size[0] != 0
\* Variants: the test on size[0] dropped; the special case dropped.
NotDefaultSizeRankOnly(s) == Len(s) # 1
NotDefaultSizeAlways(s) == TRUE

NotDefaultSize(s) == Len(s) # 1 \/ s[1] # 0

\* memory_format_opt.has_value() && *memory_format_opt != Contiguous
\* Variant: the inner test against Contiguous dropped.
NeedsRestrideAnyFormat(fmt) == fmt # "None"

NeedsRestride(fmt) == fmt # "None" /\ fmt # "Contiguous"

\* TensorImpl::set_sizes_contiguous: row-major strides; a dimension of size 0
\* counts as 1 in the running product.
RECURSIVE StrideAt(_, _)
StrideAt(s, i) ==
    IF i >= Len(s) THEN 1
    ELSE Wrap(StrideAt(s, i + 1) * Max(s[i + 1], 1))
ContiguousStrides(s) == [i \in 1..Len(s) |-> StrideAt(s, i)]

\* TensorImpl::empty_tensor_restride for a channels-last format: the same
\* running product over the permuted traversal (dimension 2 innermost, then
\* the last dimension down to the third, then dimension 1), mapped back.
TraversalOrder(n) ==
    IF n < 2 THEN [k \in 1..n |-> n + 1 - k]
    ELSE [k \in 1..n |-> IF k = 1 THEN 2 ELSE IF k = n THEN 1 ELSE n + 2 - k]
RECURSIVE PermutedStride(_, _, _)
PermutedStride(s, ord, k) ==
    IF k = 1 THEN 1
    ELSE Wrap(PermutedStride(s, ord, k - 1) * Max(s[ord[k - 1]], 1))
ChannelsLastStrides(s) ==
    LET ord == TraversalOrder(Len(s))
    IN [d \in 1..Len(s) |-> PermutedStride(s, ord, CHOOSE k \in 1..Len(s) : ord[k] = d)]

\* ------------------------------------------------------------- the call

Init ==
    /\ size \in Shapes
    /\ scalar_type \in ScalarTypes
    /\ pin_memory \in BOOLEAN
    /\ memory_format_opt \in MemoryFormats
    /\ hasPinnedAllocator \in BOOLEAN
    /\ pc = "empty_cpu"
    /\ allocator = "none"
    /\ nelements = 0
    /\ size_bytes = 0
    /\ error = NoError
    /\ allocCalls = 0
    /\ requested = 0
    /\ storage = NoStorage
    /\ tensor = NoTensor
    /\ setSizesCalls = 0
    /\ restrideCalls = 0
    /\ steps = <<>>
    /\ holds = [t \in Threads |-> "none"]
    /\ freed = 0

InitShared == Init /\ size \in SharedShapes

\* empty_cpu: auto allocator = GetCPUAllocatorMaybePinned(pin_memory)
ResolveAllocator ==
    /\ pc = "empty_cpu"
    /\ LET a == GetCPUAllocatorMaybePinned(pin_memory, hasPinnedAllocator)
       IN IF a = "throw"
          THEN /\ pc' = "failed"
               /\ error' = Error("UnsupportedPolicyError")
               /\ UNCHANGED <<allocator, steps>>
          ELSE /\ pc' = "check_size"
               /\ allocator' = a
               /\ steps' = Append(steps, "resolve")
               /\ UNCHANGED error
    /\ UNCHANGED <<inputs, nelements, size_bytes, allocCalls, requested, storage,
                   tensor, setSizesCalls, restrideCalls, holds, freed>>

\* Variant: the call of check_size_nonnegative left out.
CheckSizeSkipped ==
    /\ pc = "check_size"
    /\ pc' = "multiply"
    /\ UNCHANGED <<inputs, allocator, nelements, size_bytes, error, allocCalls,
                   requested, storage, tensor, setSizesCalls, restrideCalls,
                   steps, holds, freed>>

\* empty_generic: at::detail::check_size_nonnegative(size)
CheckSize ==
    /\ pc = "check_size"
    /\ LET i == check_size_nonnegative(size)
       IN IF i # 0
          THEN /\ pc' = "failed"
               /\ error' = [kind |-> "ValidationError", dim |-> size[i], shape |-> size]
               /\ UNCHANGED steps
          ELSE /\ pc' = "multiply"
               /\ steps' = Append(steps, "validate")
               /\ UNCHANGED error
    /\ UNCHANGED <<inputs, allocator, nelements, size_bytes, allocCalls, requested,
                   storage, tensor, setSizesCalls, restrideCalls, holds, freed>>

\* empty_generic: int64_t nelements = c10::multiply_integers(size)
MultiplyIntegers ==
    /\ pc = "multiply"
    /\ LET n == multiply_integers(size)
       IN IF n < 0
          THEN /\ pc' = "failed"
               /\ error' = Error("OverflowError")
               /\ UNCHANGED nelements
          ELSE /\ pc' = "size_bytes"
               /\ nelements' = n
               /\ UNCHANGED error
    /\ UNCHANGED <<inputs, allocator, size_bytes, allocCalls, requested, storage,
                   tensor, setSizesCalls, restrideCalls, steps, holds, freed>>

\* empty_generic: dtype = scalarTypeToTypeMeta(scalar_type);
\*                size_bytes = nelements * dtype.itemsize()
ComputeSizeBytes ==
    /\ pc = "size_bytes"
    /\ size_bytes' = ByteSize(nelements, scalar_type)
    /\ steps' = Append(steps, "size")
    /\ pc' = "allocate"
    /\ UNCHANGED <<inputs, allocator, nelements, error, allocCalls, requested,
                   storage, tensor, setSizesCalls, restrideCalls, holds, freed>>

\* Variant: a second allocate after a failed one, and the StorageImpl left
\* behind.
AllocateStorageRetry ==
    /\ pc = "allocate"
    /\ \E ok \in BOOLEAN :
         IF ok /\ size_bytes >= 0
         THEN /\ storage' = StorageImpl(size_bytes, allocator)
              /\ allocCalls' = allocCalls + 1
              /\ steps' = Append(steps, "allocate")
              /\ pc' = "make_tensor"
              /\ UNCHANGED error
         ELSE /\ pc' = "failed"
              /\ allocCalls' = allocCalls + 2
              /\ storage' = StorageImpl(size_bytes, allocator)
              /\ error' = Error("AllocationError")
              /\ UNCHANGED steps
    /\ requested' = size_bytes
    /\ UNCHANGED <<inputs, allocator, nelements, size_bytes, tensor, setSizesCalls,
                   restrideCalls, holds, freed>>

\* empty_generic: make_intrusive<StorageImpl>(..., size_bytes,
\*   allocator->allocate(size_bytes), allocator, true).  allocate is an
\* argument: when it throws, no StorageImpl is constructed.  The allocator
\* may fail on any request, and cannot satisfy a byte count that is negative
\* as an int64_t (a size_t above the address space).
AllocateStorage ==
    /\ pc = "allocate"
    /\ \E ok \in BOOLEAN :
         IF ok /\ size_bytes >= 0
         THEN /\ storage' = StorageImpl(size_bytes, allocator)
              /\ steps' = Append(steps, "allocate")
              /\ pc' = "make_tensor"
              /\ UNCHANGED error
         ELSE /\ pc' = "failed"
              /\ error' = Error("AllocationError")
              /\ UNCHANGED <<storage, steps>>
    /\ allocCalls' = allocCalls + 1
    /\ requested' = size_bytes
    /\ UNCHANGED <<inputs, allocator, nelements, size_bytes, tensor, setSizesCalls,
                   restrideCalls, holds, freed>>

\* empty_generic: make_tensor_base<TensorImpl>(std::move(storage_impl),
\*   dispatch_key, dtype): the reference moves, the count stays.
MakeTensor ==
    /\ pc = "make_tensor"
    /\ tensor' = [exists |-> TRUE, sizes |-> DefaultSizes, strides |-> DefaultStrides,
                  dtype |-> scalar_type, ownsStorage |-> TRUE]
    /\ pc' = "set_sizes"
    /\ UNCHANGED <<inputs, allocator, nelements, size_bytes, error, allocCalls,
                   requested, storage, setSizesCalls, restrideCalls, steps, holds,
                   freed>>

\* empty_generic: if (size.size() != 1 || size[0] != 0) set_sizes_contiguous(size)
SetSizes ==
    /\ pc = "set_sizes"
    /\ IF NotDefaultSize(size)
       THEN /\ tensor' = [tensor EXCEPT !.sizes = size,
                                        !.strides = ContiguousStrides(size)]
            /\ setSizesCalls' = setSizesCalls + 1
       ELSE UNCHANGED <<tensor, setSizesCalls>>
    /\ pc' = "restride"
    /\ UNCHANGED <<inputs, allocator, nelements, size_bytes, error, allocCalls,
                   requested, storage, restrideCalls, steps, holds, freed>>

\* empty_generic: if (memory_format_opt.has_value())
\*   if (*memory_format_opt != Contiguous) empty_tensor_restride(...)
Restride ==
    /\ pc = "restride"
    /\ IF NeedsRestride(memory_format_opt)
       THEN /\ tensor' = [tensor EXCEPT !.strides = ChannelsLastStrides(tensor.sizes)]
            /\ restrideCalls' = restrideCalls + 1
       ELSE UNCHANGED <<tensor, restrideCalls>>
    /\ pc' = "return"
    /\ UNCHANGED <<inputs, allocator, nelements, size_bytes, error, allocCalls,
                   requested, storage, setSizesCalls, steps, holds, freed>>

\* empty_generic: return tensor.  The calling thread holds the Descriptor.
Return ==
    /\ pc = "return"
    /\ pc' = "done"
    /\ steps' = Append(steps, "build")
    /\ holds' = [holds EXCEPT ![1] = "held"]
    /\ UNCHANGED <<inputs, allocator, nelements, size_bytes, error, allocCalls,
                   requested, storage, tensor, setSizesCalls, restrideCalls, freed>>

\* ------------------------------------------------- sharing the Storage

\* A holder hands a second reference to another thread: refcount + 1.
Acquire(t, u) ==
    /\ pc = "done"
    /\ holds[t] = "held"
    /\ holds[u] = "none"
    /\ storage' = [storage EXCEPT !.refcount = @ + 1]
    /\ holds' = [holds EXCEPT ![u] = "held"]
    /\ UNCHANGED <<inputs, pc, allocator, nelements, size_bytes, error, allocCalls,
                   requested, tensor, setSizesCalls, restrideCalls, steps, freed>>

\* A holder drops its reference: one atomic decrement; the thread that
\* brings the count to zero goes on to release the buffer.
Release(t) ==
    /\ pc = "done"
    /\ holds[t] = "held"
    /\ storage' = [storage EXCEPT !.refcount = @ - 1]
    /\ holds' = [holds EXCEPT ![t] = IF storage.refcount - 1 = 0
                                     THEN "freeing" ELSE "none"]
    /\ UNCHANGED <<inputs, pc, allocator, nelements, size_bytes, error, allocCalls,
                   requested, tensor, setSizesCalls, restrideCalls, steps, freed>>

\* The last holder returns the buffer to the allocator that made it.
Free(t) ==
    /\ pc = "done"
    /\ holds[t] = "freeing"
    /\ freed' = freed + 1
    /\ holds' = [holds EXCEPT ![t] = "none"]
    /\ UNCHANGED <<inputs, pc, allocator, nelements, size_bytes, error, allocCalls,
                   requested, storage, tensor, setSizesCalls, restrideCalls, steps>>

Next ==
    \/ ResolveAllocator
    \/ CheckSize
    \/ MultiplyIntegers
    \/ ComputeSizeBytes
    \/ AllocateStorage
    \/ MakeTensor
    \/ SetSizes
    \/ Restride
    \/ Return

NextShared ==
    \/ Next
    \/ \E t \in Threads, u \in Threads : Acquire(t, u)
    \/ \E t \in Threads : Release(t)
    \/ \E t \in Threads : Free(t)

Spec == Init /\ [][Next]_vars
SpecShared == InitShared /\ [][NextShared]_vars

TypeOK ==
    /\ size \in Shapes
    /\ pc \in {"empty_cpu", "check_size", "multiply", "size_bytes", "allocate",
               "make_tensor", "set_sizes", "restride", "return", "done", "failed"}
    /\ allocator \in {"none", "cpu", "pinned"}
    /\ nelements \in 0..MaxInt
    /\ size_bytes \in (-MaxInt - 1)..MaxInt
    /\ Len(tensor.sizes) = Len(tensor.strides)

\* --------------------------------------------------------------- claims

HasNegative(s) == \E i \in 1..Len(s) : s[i] < 0
RECURSIVE Product(_)
Product(s) == IF s = <<>> THEN 1 ELSE Head(s) * Product(Tail(s))
RECURSIVE SizesRight(_, _)
SizesRight(s, i) == IF i >= Len(s) THEN 1 ELSE s[i + 1] * SizesRight(s, i + 1)
RECURSIVE ClampedRight(_, _)
ClampedRight(s, i) == IF i >= Len(s) THEN 1 ELSE Max(s[i + 1], 1) * ClampedRight(s, i + 1)
IsPrefix(a, b) == Len(a) <= Len(b) /\ \A i \in 1..Len(a) : a[i] = b[i]
Returned == pc \in {"return", "done"}
ExpectedAllocator == IF pin_memory THEN "pinned" ELSE "cpu"
Unsupported == pin_memory /\ ~hasPinnedAllocator
PlainFormat == memory_format_opt \in {"None", "Contiguous"}

\* C1: a call that returns a Descriptor has a Storage of exactly
\* product(shape) * width(T) bytes, and asked the allocator for that many.
C1_ByteSizeIsProduct ==
    tensor.exists =>
        /\ storage.nbytes = Product(size) * itemsize(scalar_type)
        /\ requested = Product(size) * itemsize(scalar_type)

C3_OverflowFails ==
    (/\ ~HasNegative(size)
     /\ \/ Product(size) > MaxInt
        \/ Product(size) * itemsize(scalar_type) > MaxInt) =>
        /\ allocCalls = 0
        /\ ~storage.exists
        /\ ~tensor.exists
        /\ (pc = "failed" /\ ~Unsupported) => error.kind = "OverflowError"

\* C4: a failure of validation, sizing or allocator resolution leaves the
\* allocator uncalled and no Storage; a failure of the allocator leaves no
\* Storage and no Descriptor, ends the call with an AllocationError, and the
\* allocator was called exactly once.
C4_NoPartialState ==
    /\ (pc = "failed") <=> (error.kind # "none")
    /\ pc = "failed" => ~storage.exists /\ ~tensor.exists
    /\ error.kind \in {"ValidationError", "OverflowError", "UnsupportedPolicyError"}
          => allocCalls = 0
    /\ error.kind = "AllocationError" => allocCalls = 1 /\ requested = size_bytes
    /\ allocCalls <= 1

C4_Witness ==
    /\ pc = "failed"
    /\ error.kind = "AllocationError"
    /\ size_bytes > 0
    /\ allocCalls = 1

\* C5: the allocator used is the pinned one for a pinned request and the
\* default one otherwise; a pinned request with no pinned allocator fails
\* with an UnsupportedPolicyError, allocates nothing and never gets the
\* default allocator; resolving allocates nothing.
C5_AllocatorSelection ==
    /\ allocator # "none" => allocator = ExpectedAllocator
    /\ storage.exists => storage.allocator = ExpectedAllocator
    /\ pc = "check_size" => allocCalls = 0 /\ allocator # "none"
    /\ Unsupported =>
          /\ allocator = "none"
          /\ allocCalls = 0
          /\ ~storage.exists
          /\ pc \in {"empty_cpu", "failed"}
          /\ pc = "failed" => error.kind = "UnsupportedPolicyError"
    /\ ~Unsupported => error.kind # "UnsupportedPolicyError"

C5_Witness ==
    /\ pc = "failed"
    /\ pin_memory
    /\ ~hasPinnedAllocator
    /\ error.kind = "UnsupportedPolicyError"
    /\ ~HasNegative(size)

\* C6: while any thread still holds a reference the buffer has not been
\* released; when no thread holds one any more it has been released exactly
\* once; the count is the number of holders.
C6_ReleasedExactlyOnce ==
    pc = "done" =>
        /\ freed <= 1
        /\ (\E t \in Threads : holds[t] = "held") => freed = 0
        /\ (\A t \in Threads : holds[t] = "none") => freed = 1
        /\ storage.refcount = Cardinality({t \in Threads : holds[t] = "held"})
        /\ Cardinality({t \in Threads : holds[t] = "freeing"}) <= 1 - freed

C6_Witness ==
    /\ pc = "done"
    /\ holds[1] = "none"
    /\ holds[2] = "held"
    /\ storage.refcount = 1
    /\ freed = 0

C8_ContiguousIsNoop ==
    (Returned /\ PlainFormat) =>
        /\ restrideCalls = 0
        /\ allocCalls = 1
        /\ storage.exists /\ tensor.ownsStorage
        /\ storage.nbytes = requested
        /\ tensor.sizes = (IF size = <<0>> THEN DefaultSizes ELSE size)
        /\ tensor.strides = (IF size = <<0>> THEN DefaultStrides
                             ELSE ContiguousStrides(size))

C8_Witness ==
    /\ pc = "done"
    /\ memory_format_opt = "Contiguous"
    /\ size = <<2, 3, 4>>
    /\ tensor.strides = <<12, 4, 1>>
    /\ restrideCalls = 0

\* C9 (as claimed): for a shape other than [0], contiguous or no format,
\* sizes are the shape, there are as many strides as sizes, the last stride
\* is 1 and every other stride is the product of the sizes to its right.
C9_StridesAreProducts ==
    (Returned /\ PlainFormat /\ size # <<0>>) =>
        /\ tensor.sizes = size
        /\ Len(tensor.strides) = Len(tensor.sizes)
        /\ \A i \in 1..Len(size) : tensor.strides[i] = SizesRight(size, i)

\* C9 (amended): ... every other stride is the product, over the dimensions
\* to its right, of max(size, 1), in the integer width; for a shape with no
\* dimension 0 that is the product of the sizes to its right.
C9_RowMajorStrides ==
    (Returned /\ PlainFormat /\ size # <<0>>) =>
        /\ tensor.sizes = size
        /\ Len(tensor.strides) = Len(tensor.sizes)
        /\ Len(size) > 0 => tensor.strides[Len(size)] = 1
        /\ \A i \in 1..Len(size) : tensor.strides[i] = Wrap(ClampedRight(size, i))
        /\ (\A j \in 1..Len(size) : size[j] # 0) =>
              \A i \in 1..Len(size) : tensor.strides[i] = SizesRight(size, i)

C9_Witness ==
    /\ pc = "done"
    /\ memory_format_opt = "None"
    /\ size = <<2, 3, 4>>
    /\ tensor.sizes = <<2, 3, 4>>
    /\ tensor.strides = <<12, 4, 1>>

====
